---------------------------- MODULE Spec2Model ----------------------------
(***************************************************************************)
(* Model of the notebook                                                   *)
(*   Analyzing_HTAN_spatial_data_with_BigQuery_geospatial_analytics.ipynb  *)
(* as a state machine: the kernel's namespace (client, project_id, query,  *)
(* df, df1), the position of a top-to-bottom run, the remote service (the  *)
(* source table, the datasets and tables of the billing project, the jobs  *)
(* in flight) and what was handed to the plotting calls.                   *)
(*                                                                         *)
(* Numbers.  TLC has integers only, so every decimal of the notebook is    *)
(* kept in a fixed-point unit:                                             *)
(*   pixel coordinates    tenths of a pixel      (23076.9   -> 230769)     *)
(*   marker intensities   hundredths             (7589.48   -> 758948)     *)
(*   longitude, latitude  1e-7 degree                                      *)
(*   distances            millimetres            (9.293247.. m -> 9293)    *)
(* SQL NULL is the value NULL, which no measurement takes.                 *)
(***************************************************************************)
EXTENDS Integers, Sequences, FiniteSets, TLC

NULL == 0 - 1

(***************************************************************************)
(* Bounds of the model.                                                    *)
(***************************************************************************)
\* number of cells of the source table whose attributes are drawn freely
NFree == 2
\* number of top-to-bottom runs of the notebook against the same project
MaxRuns == 2

(***************************************************************************)
(* Constants of the notebook's queries.                                    *)
(***************************************************************************)
SOX10_Threshold == 370450
S100B_Threshold == 758948
CD63_Threshold == 57068
XMin == 230769
XMax == 303846
YMin == 96153
YMax == 150000
ScaleFactor == 368570
DWithinThreshold == 9293
DbscanEpsilon == 20000
DbscanMinGeographies == 10
PreviewLimit == 10

Biospecimen == "HTA7_1_3"
OtherBiospecimen == "HTA7_2_1"
DatasetName == "isb-cgc-outreach.temp15432"
ProximityTableName == "isb-cgc-outreach.temp15432.Melanoma_CyCIF_HTA7_1_3_points_within_20um"

(***************************************************************************)
(* Arithmetic helpers.                                                     *)
(***************************************************************************)
Abs(x) == IF x < 0 THEN 0 - x ELSE x

RECURSIVE ISqrtBetween(_, _, _)
ISqrtBetween(n, lo, hi) ==
    IF lo >= hi THEN lo
    ELSE LET mid == (lo + hi + 1) \div 2
         IN  IF mid * mid <= n THEN ISqrtBetween(n, mid, hi)
                               ELSE ISqrtBetween(n, lo, mid - 1)

\* floor of the square root of n, 0 <= n < 2^30
ISqrt(n) == ISqrtBetween(n, 0, 32767)

\* the first `digits` decimals of r / d for 0 <= r < d, as an integer
RECURSIVE FracDigits(_, _, _)
FracDigits(r, d, digits) ==
    IF digits = 0 THEN 0
    ELSE LET t == r * 10
             rest == FracDigits(t % d, d, digits - 1)
             RECURSIVE Pow10(_)
             Pow10(k) == IF k = 0 THEN 1 ELSE 10 * Pow10(k - 1)
         IN  (t \div d) * Pow10(digits - 1) + rest

(***************************************************************************)
(* SQL three-valued logic: "T", "F" and "N" (NULL).                        *)
(***************************************************************************)
SqlGt(a, t) == IF a = NULL THEN "N" ELSE IF a > t THEN "T" ELSE "F"

SqlLt(a, t) == IF a = NULL THEN "N" ELSE IF a < t THEN "T" ELSE "F"

\* a = b for two strings, neither of them NULL
SqlEq(a, b) == IF a = b THEN "T" ELSE "F"

SqlAndTable ==
    [a \in {"T", "F", "N"} |-> [b \in {"T", "F", "N"} |->
        IF a = "F" \/ b = "F" THEN "F"
        ELSE IF a = "T" /\ b = "T" THEN "T" ELSE "N"]]

SqlOrTable ==
    [a \in {"T", "F", "N"} |-> [b \in {"T", "F", "N"} |->
        IF a = "T" \/ b = "T" THEN "T"
        ELSE IF a = "F" /\ b = "F" THEN "F" ELSE "N"]]

SqlAnd(a, b) == SqlAndTable[a][b]

SqlOr(a, b) == SqlOrTable[a][b]

\* IF(cond, x, y): x only when cond is TRUE, y when it is FALSE or NULL
SqlIf(cond, x, y) == IF cond = "T" THEN x ELSE y

\* a WHERE or ON clause keeps a row only when its condition is TRUE
SqlKeeps(cond) == cond = "T"

(***************************************************************************)
(* Geography functions of the query engine.                                *)
(***************************************************************************)
\* X_centroid/368570 in units of 1e-7 degree, X_centroid given in tenths of a pixel
Rescale(x10) ==
    IF x10 = NULL THEN NULL
    ELSE LET d == ScaleFactor * 10
         IN  (x10 \div d) * 10000000 + FracDigits(x10 % d, d, 7)

ST_GeogPoint(lon, lat) ==
    IF lon = NULL \/ lat = NULL THEN [isnull |-> TRUE, lon |-> 0, lat |-> 0]
    ELSE [isnull |-> FALSE, lon |-> lon, lat |-> lat]

\* metres per degree of arc on the engine's sphere (radius 6371010 m)
EarthMetersPerDegree == 111195

\* coordinate differences beyond this many 1e-7 degrees (about 22 m) are not
\* resolved: the distance saturates at FarDistance, above every threshold used
FarUnits == 2000

FarDistance == (FarUnits * 4 * EarthMetersPerDegree) \div 40000

\* great-circle distance in millimetres; within 0.1 degree of the origin the
\* sphere is flat to better than one part in a million.  NULL for a NULL point.
ST_Distance(p, q) ==
    IF p.isnull \/ q.isnull THEN NULL
    ELSE LET dx == Abs(p.lon - q.lon)
             dy == Abs(p.lat - q.lat)
         IN  IF dx > FarUnits \/ dy > FarUnits THEN FarDistance
             ELSE LET quarter == ISqrt((dx * dx + dy * dy) * 16)
                      mm == (quarter * EarthMetersPerDegree) \div 40000
                  IN  IF mm > FarDistance THEN FarDistance ELSE mm

\* ST_DWithin(p, q, d): the distance between p and q is at most d
ST_DWithin(p, q, d) ==
    LET dist == ST_Distance(p, q)
    IN  IF dist = NULL THEN "N" ELSE IF dist <= d THEN "T" ELSE "F"


(***************************************************************************)
(* The source table isb-cgc-bq.HTAN.imaging_level4_HMS_mel_mask_current.   *)
(* A row is one segmented cell; CellID identifies it.  The model's table   *)
(* holds a dense group of tumour cells (as many as the clustering query's  *)
(* minimum, 2 pixels apart) and NFree further cells, each drawn from       *)
(* CellProfiles.                                                           *)
(***************************************************************************)
Cell(id, x, y, sox10, s100b, cd63, bio) ==
    [CellID |-> id, X_centroid |-> x, Y_centroid |-> y,
     SOX10_cellRingMask |-> sox10, S100B_cellRingMask |-> s100b,
     CD63_cellRingMask |-> cd63, HTAN_Biospecimen_ID |-> bio]

DenseIds == 1 .. DbscanMinGeographies

FreeIds == (DbscanMinGeographies + 1) .. (DbscanMinGeographies + NFree)

DenseCells ==
    { Cell(i, 250000 + 20 * (i - 1), 120000, 370451, 758949, 57068, Biospecimen) : i \in DenseIds }

\* <<X_centroid, Y_centroid, SOX10, S100B, CD63, biospecimen>>
CellProfiles ==
    << <<250100, 120100, 370451, 758949, 57068, Biospecimen>>,       \* tumour, next to the dense group
       <<250100, 120100, 370450, 758949, 57069, Biospecimen>>,       \* SOX10 at its threshold
       <<250100, 120100, 370451, 758949, 57069, OtherBiospecimen>>,  \* another biospecimen
       <<250580, 120000, 370451, NULL, 57069, Biospecimen>>,         \* tumour, 12 to 17 m from the group
       <<230769, 120000, 370451, 758949, 57068, Biospecimen>>,       \* tumour on the rectangle's edge
       <<230770, 120000, 370451, 758948, 57069, Biospecimen>>,       \* tumour just inside the edge
       <<230770, 120000, NULL, 758949, 57069, Biospecimen>> >>       \* SOX10 not measured

\* CellID only names a row, so the further cells take their profiles in one order
SourceTables ==
    { DenseCells \cup { Cell(i, CellProfiles[f[i]][1], CellProfiles[f[i]][2], CellProfiles[f[i]][3],
                                CellProfiles[f[i]][4], CellProfiles[f[i]][5], CellProfiles[f[i]][6]) :
                          i \in FreeIds } :
        f \in { g \in [FreeIds -> DOMAIN CellProfiles] :
                   \A i, j \in FreeIds : i < j => g[i] <= g[j] } }

(***************************************************************************)
(* The queries.  A table or a query result is a set of rows: CellID is     *)
(* unique in the source table, so no query below yields a row twice, and   *)
(* no cell of the notebook reads a row by its position.                    *)
(***************************************************************************)
\* cell 12, the CTE cells: the label of a source row
celltype_cells(r) ==
    SqlIf(SqlAnd(SqlGt(r.SOX10_cellRingMask, SOX10_Threshold),
                 SqlOr(SqlGt(r.S100B_cellRingMask, S100B_Threshold),
                       SqlGt(r.CD63_cellRingMask, CD63_Threshold))),
          "Tumor", "Other")

\* cell 12, the outer WHERE: strictly inside the rectangle
WhereRectangle_cells(r) ==
    SqlAnd(SqlAnd(SqlGt(r.X_centroid, XMin), SqlLt(r.X_centroid, XMax)),
           SqlAnd(SqlGt(r.Y_centroid, YMin), SqlLt(r.Y_centroid, YMax)))

\* cell 12: the classification query
ClassificationQuery(src) ==
    LET cells == { [CellID |-> r.CellID, X_centroid |-> r.X_centroid,
                    Y_centroid |-> r.Y_centroid, celltype |-> celltype_cells(r)] :
                   r \in { s \in src : SqlKeeps(SqlEq(s.HTAN_Biospecimen_ID, Biospecimen)) } }
    IN  { c \in cells : SqlKeeps(WhereRectangle_cells(c)) }

\* cell 17, the CTE geodat: the label of a source row
celltype_geodat(r) ==
    SqlIf(SqlAnd(SqlGt(r.SOX10_cellRingMask, SOX10_Threshold),
                 SqlOr(SqlGt(r.S100B_cellRingMask, S100B_Threshold),
                       SqlGt(r.CD63_cellRingMask, CD63_Threshold))),
          "Tumor", "Other")

\* cell 17 with the WHERE on the biospecimen left out
geodat_AllBiospecimens(src) ==
    { [CellID |-> r.CellID, X_centroid |-> r.X_centroid, Y_centroid |-> r.Y_centroid,
       celltype |-> celltype_geodat(r),
       p |-> ST_GeogPoint(Rescale(r.X_centroid), Rescale(r.Y_centroid))] :
      r \in src }

\* cell 17, the CTE geodat
geodat(src) ==
    { [CellID |-> r.CellID, X_centroid |-> r.X_centroid, Y_centroid |-> r.Y_centroid,
       celltype |-> celltype_geodat(r),
       p |-> ST_GeogPoint(Rescale(r.X_centroid), Rescale(r.Y_centroid))] :
      r \in { s \in src : SqlKeeps(SqlEq(s.HTAN_Biospecimen_ID, Biospecimen)) } }

\* cell 17 with each unordered pair joined once
JoinOn_OrderedPairs(t1, t2) ==
    SqlAnd(ST_DWithin(t1.p, t2.p, DWithinThreshold),
           IF t1.CellID < t2.CellID THEN "T" ELSE "F")

\* cell 17, the ON clause of the self-join
JoinOn(t1, t2) == ST_DWithin(t1.p, t2.p, DWithinThreshold)

\* cell 17, the SELECT list of the self-join
PairRow(t1, t2) ==
    [CellID |-> t1.CellID, X_centroid |-> t1.X_centroid, Y_centroid |-> t1.Y_centroid,
     p |-> t1.p, celltype |-> t1.celltype,
     CellID_1 |-> t2.CellID, X_centroid_1 |-> t2.X_centroid, Y_centroid_1 |-> t2.Y_centroid,
     p_1 |-> t2.p, celltype_1 |-> t2.celltype,
     Distance |-> ST_Distance(t1.p, t2.p)]

\* cell 17: the pairwise-proximity query
ProximityQuery(src) ==
    LET g == geodat(src)
    IN  { PairRow(pr[1], pr[2]) : pr \in { qr \in g \X g : SqlKeeps(JoinOn(qr[1], qr[2])) } }

\* the rows of a table in the order (CellID, CellID_1)
RowBefore(a, b) ==
    \/ a.CellID < b.CellID
    \/ a.CellID = b.CellID /\ a.CellID_1 < b.CellID_1

\* cell 21: SELECT * ... LIMIT 10.  The engine may return any 10 rows; the model
\* has it scan the table forwards or backwards.
ScanOrders == {"forward", "backward"}

PreviewQuery(tbl, order) ==
    { r \in tbl :
        Cardinality({ s \in tbl : IF order = "forward" THEN RowBefore(s, r) ELSE RowBefore(r, s) })
            < PreviewLimit }

\* cell 23, the WHERE of the CTE cellp
WhereRectangle_cellp(r) ==
    SqlAnd(SqlAnd(SqlGt(r.X_centroid, XMin), SqlLt(r.X_centroid, XMax)),
           SqlAnd(SqlGt(r.Y_centroid, YMin), SqlLt(r.Y_centroid, YMax)))

\* cell 23 with the record itself counted among its neighbours
N_Tumor_Cells_CountsSelf(group) ==
    Cardinality({ r \in group : SqlKeeps(SqlEq(r.celltype_1, "Tumor")) })

\* cell 23: COUNTIF(celltype_1 = 'Tumor') - 1 over the rows of one group
N_Tumor_Cells(group) ==
    Cardinality({ r \in group : SqlKeeps(SqlEq(r.celltype_1, "Tumor")) }) - 1

\* cell 23: the aggregation query over the proximity table
AggregationQuery(tbl) ==
    LET cellp == { [CellID |-> r.CellID, celltype |-> r.celltype,
                    CellID_1 |-> r.CellID_1, celltype_1 |-> r.celltype_1] :
                   r \in { s \in tbl : SqlKeeps(WhereRectangle_cellp(s)) } }
        kept == { r \in cellp : SqlKeeps(SqlEq(r.celltype, "Tumor")) }
    IN  { [CellID |-> id,
           N_Tumor_Cells |-> N_Tumor_Cells({ r \in kept : r.CellID = id })] :
          id \in { r.CellID : r \in kept } }

\* cell 28 asking for both S100B and CD63 where cells 12 and 17 ask for either
Where_cluster_BothMarkers(r) ==
    SqlAnd(SqlEq(r.HTAN_Biospecimen_ID, Biospecimen),
      SqlAnd(SqlAnd(SqlGt(r.X_centroid, XMin), SqlLt(r.X_centroid, XMax)),
        SqlAnd(SqlAnd(SqlGt(r.Y_centroid, YMin), SqlLt(r.Y_centroid, YMax)),
          SqlAnd(SqlGt(r.SOX10_cellRingMask, SOX10_Threshold),
                 SqlAnd(SqlGt(r.S100B_cellRingMask, S100B_Threshold),
                        SqlGt(r.CD63_cellRingMask, CD63_Threshold))))))

\* cell 28, the WHERE of the CTE cells
Where_cluster(r) ==
    SqlAnd(SqlEq(r.HTAN_Biospecimen_ID, Biospecimen),
      SqlAnd(SqlAnd(SqlGt(r.X_centroid, XMin), SqlLt(r.X_centroid, XMax)),
        SqlAnd(SqlAnd(SqlGt(r.Y_centroid, YMin), SqlLt(r.Y_centroid, YMax)),
          SqlAnd(SqlGt(r.SOX10_cellRingMask, SOX10_Threshold),
                 SqlOr(SqlGt(r.S100B_cellRingMask, S100B_Threshold),
                       SqlGt(r.CD63_cellRingMask, CD63_Threshold))))))

\* cell 28, the CTE cells
cells_cluster(src) ==
    { [CellID |-> r.CellID, X_centroid |-> r.X_centroid, Y_centroid |-> r.Y_centroid,
       p |-> ST_GeogPoint(Rescale(r.X_centroid), Rescale(r.Y_centroid))] :
      r \in { s \in src : SqlKeeps(Where_cluster(s)) } }

MinOf(S) == CHOOSE i \in S : \A j \in S : i <= j

\* the ids reachable from the ids in S through the pairs of adj
RECURSIVE Reach(_, _)
Reach(S, adj) ==
    LET T == S \cup { e[2] : e \in { f \in adj : f[1] \in S } }
    IN  IF T = S THEN S ELSE Reach(T, adj)

\* ST_CLUSTERDBSCAN(p, epsilon, minimum_geographies) OVER (): the possible
\* numberings CellID -> cluster_num of the rows.  A core row has at least
\* minimum_geographies rows (itself included) within epsilon; cores within epsilon of
\* each other share a cluster; a border row (not core, within epsilon of a core) joins
\* the cluster of any one such core; every other row is noise and gets NULL.  Clusters
\* are numbered from 0.

\* the numberings that give every row one of its options
DbscanNumberings(ids, options, open) ==
    { [ i \in ids |-> IF i \in open THEN h[i] ELSE MinOf(options[i]) ] :
      h \in { k \in [open -> UNION { options[i] : i \in open }] : \A i \in open : k[i] \in options[i] } }

\* the cluster numbers a row may get, given the number of every core row
DbscanOptions(ids, near, number) ==
    [ i \in ids |->
        IF i \in DOMAIN number THEN { number[i] }
        ELSE IF \E e \in near : e[1] = i /\ e[2] \in DOMAIN number
             THEN { number[e[2]] : e \in { f \in near : f[1] = i /\ f[2] \in DOMAIN number } }
             ELSE { NULL } ]

\* the number of every core row, given the least CellID of its cluster
DbscanNumber(leader) ==
    [ i \in DOMAIN leader |->
        Cardinality({ m \in { leader[k] : k \in DOMAIN leader } : m < leader[i] }) ]

\* the least CellID of the cluster of every core row
DbscanLeader(core, coreAdj) == [ i \in core |-> MinOf(Reach({i}, coreAdj)) ]

DbscanCore(ids, near, minimum_geographies) ==
    { i \in ids : Cardinality({ e \in near : e[1] = i }) >= minimum_geographies }

DbscanClusters(ids, near, core) ==
    DbscanOptions(ids, near,
        DbscanNumber(DbscanLeader(core, { e \in near : e[1] \in core /\ e[2] \in core })))

DbscanOpen(ids, options) ==
    DbscanNumberings(ids, options, { i \in ids : Cardinality(options[i]) > 1 })

DbscanNear(ids, near, minimum_geographies) ==
    DbscanOpen(ids, DbscanClusters(ids, near, DbscanCore(ids, near, minimum_geographies)))

ST_CLUSTERDBSCAN(rows, epsilon, minimum_geographies) ==
    DbscanNear({ r.CellID : r \in rows },
               { <<pr[1].CellID, pr[2].CellID>> :
                   pr \in { qr \in rows \X rows : ST_DWithin(qr[1].p, qr[2].p, epsilon) = "T" } },
               minimum_geographies)

\* cell 28: the clustering query; one result per numbering the engine may produce
ClusteringQuery(src) ==
    LET rows == cells_cluster(src)
    IN  { { [CellID |-> r.CellID, X_centroid |-> r.X_centroid, Y_centroid |-> r.Y_centroid,
             cluster_num |-> f[r.CellID]] : r \in rows } :
          f \in ST_CLUSTERDBSCAN(rows, DbscanEpsilon, DbscanMinGeographies) }

(***************************************************************************)
(* Dataframes.  A dataframe is the rows a query returned, tagged with the  *)
(* query; Unbound stands for a name the kernel has not bound.              *)
(***************************************************************************)
Unbound == [query |-> "unbound", rows |-> {}]

DataFrame(sql, rows) == [query |-> sql, rows |-> rows]

\* the columns of each query's result
Columns(sql) ==
    CASE sql = "classification" -> {"CellID", "X_centroid", "Y_centroid", "celltype"}
      [] sql \in {"proximity", "preview"} ->
            {"CellID", "X_centroid", "Y_centroid", "p", "celltype", "CellID_1",
             "X_centroid_1", "Y_centroid_1", "p_1", "celltype_1", "Distance"}
      [] sql = "aggregation" -> {"CellID", "N_Tumor_Cells"}
      [] sql = "clustering" -> {"CellID", "X_centroid", "Y_centroid", "cluster_num"}
      [] OTHER -> {}

\* the columns of a result that may hold NULL
NumericColumns(sql) ==
    Columns(sql) \ {"p", "p_1", "celltype", "celltype_1"}

\* dropna that drops nothing
dropna_KeepsAll(d) == d

\* pandas DataFrame.dropna(): a new dataframe without the rows that hold a missing value
dropna(d) ==
    [d EXCEPT !.rows = { r \in d.rows : \A k \in NumericColumns(d.query) : r[k] # NULL }]

\* d[col] = d[col].astype(str)
astype_str(d, col) ==
    [d EXCEPT !.rows = { [r EXCEPT ![col] = ToString(r[col])] : r \in d.rows }]

(***************************************************************************)
(* State.                                                                  *)
(***************************************************************************)
VARIABLES
    source,      \* rows of the source table
    datasets,    \* datasets of the billing project
    proxTable,   \* the table temp15432.Melanoma_CyCIF_HTA7_1_3_points_within_20um
    jobResult,   \* the last query job that ended: its state and its anonymous result
    inflight,    \* query jobs submitted and not yet finished
    pc,          \* the cell the run is at
    phase,       \* "ready", or "blocked" in a call that waits for a job
    error,       \* the exception that ended the run, or NoError
    runs,        \* top-to-bottom runs started so far
    step3Runs,   \* executions of cell 19 that completed without error
    names,       \* names bound in the kernel
    query,       \* the query text bound to the name query
    df,          \* the dataframe bound to df
    df1,         \* the dataframe bound to df1
    shown        \* the data last handed to each plotting cell

vars == <<source, datasets, proxTable, jobResult, inflight, pc, phase, error, runs,
          step3Runs, names, query, df, df1, shown>>

remote == <<source, datasets, proxTable>>

NoError == [cell |-> "none", kind |-> "none"]

NoTable == [exists |-> FALSE, rows |-> {}]

Table(rows) == [exists |-> TRUE, rows |-> rows]

NoResult == [cell |-> "none", sql |-> "none", ok |-> FALSE, rows |-> {}]

CodeCells == <<"c5", "c7", "c8", "c12", "c14", "c17", "c19", "c21", "c23", "c24", "c28", "c30">>

\* the cell below cell c, "done" below the last
NextCell(c) ==
    LET i == CHOOSE k \in 1 .. Len(CodeCells) : CodeCells[k] = c
    IN  IF i = Len(CodeCells) THEN "done" ELSE CodeCells[i + 1]

\* The project is new (no dataset, no table), or it holds the dataset and the table
\* from an earlier materialisation of the proximity query over the same source data.
Init ==
    /\ source \in SourceTables
    /\ \/ datasets = {} /\ proxTable = NoTable
       \/ datasets = {DatasetName} /\ proxTable = Table(ProximityQuery(source))
    /\ jobResult = NoResult
    /\ inflight = {}
    /\ pc = "c5"
    /\ phase = "ready"
    /\ error = NoError
    /\ runs = 1
    /\ step3Runs = 0
    /\ names = {}
    /\ query = "none"
    /\ df = Unbound
    /\ df1 = Unbound
    /\ shown = [c \in {"c14", "c24", "c30"} |-> Unbound]

\* cell c is the next to execute
At(c) == pc = c /\ phase = "ready" /\ error = NoError

\* an exception leaves the cell: nothing catches it, the run stops
Raise(c, kind) == error' = [cell |-> c, kind |-> kind] /\ pc' = pc /\ phase' = "ready"

\* the cell ends and the run goes on with the cell below
Advance(c) == error' = error /\ pc' = NextCell(c) /\ phase' = "ready"

(***************************************************************************)
(* The query service.                                                      *)
(***************************************************************************)
\* a query job; the notebook passes no job configuration, so the result of every job
\* goes to an anonymous table of the service
Job(c, sql) == [cell |-> c, sql |-> sql, destination |-> "anonymous"]

\* the query reads the proximity table and the table does not exist
JobNotFound(sql, tbl) == sql \in {"preview", "aggregation"} /\ ~tbl.exists

\* the results the engine may give for a query text
Evaluate(sql, src, tbl) ==
    CASE sql = "classification" -> { ClassificationQuery(src) }
      [] sql = "proximity" -> { ProximityQuery(src) }
      [] sql = "preview" -> { PreviewQuery(tbl.rows, o) : o \in ScanOrders }
      [] sql = "aggregation" -> { AggregationQuery(tbl.rows) }
      [] sql = "clustering" -> ClusteringQuery(src)
      [] OTHER -> {}

\* a service that stores the result of every job in the proximity table
JobDone_StoresInTable(j, rows) ==
    /\ inflight' = inflight \ {j}
    /\ jobResult' = [cell |-> j.cell, sql |-> j.sql, ok |-> TRUE, rows |-> rows]
    /\ proxTable' = Table(rows)
    /\ UNCHANGED <<source, datasets>>

\* job j ends with the result rows: the service stores them at the job's destination
\* (WRITE_TRUNCATE semantics for a named one)
JobDone(j, rows) ==
    /\ inflight' = inflight \ {j}
    /\ jobResult' = [cell |-> j.cell, sql |-> j.sql, ok |-> TRUE, rows |-> rows]
    /\ proxTable' = IF j.destination = ProximityTableName THEN Table(rows) ELSE proxTable
    /\ UNCHANGED <<source, datasets>>

\* the call of cell c submits the job and blocks
Submit(c, sql) ==
    /\ inflight' = inflight \cup {Job(c, sql)}
    /\ phase' = "blocked"
    /\ pc' = pc
    /\ error' = error

\* the job the call of cell c waits for
Awaited(c) == { j \in inflight : pc = c /\ phase = "blocked" /\ error = NoError /\ j.cell = c }

(***************************************************************************)
(* The cells, top to bottom.                                               *)
(***************************************************************************)
\* cell 5: the imports; the import of google.colab's auth is commented out
Cell5 ==
    /\ At("c5")
    /\ names' = names \cup {"pd", "sns", "np", "plt", "bigquery", "pandas_gbq"}
    /\ Advance("c5")
    /\ UNCHANGED <<remote, jobResult, inflight, runs, step3Runs, query, df, df1, shown>>

\* cell 7: auth.authenticate_user()
Cell7 ==
    /\ At("c7")
    /\ IF "auth" \in names THEN Advance("c7") ELSE Raise("c7", "NameError")
    /\ UNCHANGED <<remote, jobResult, inflight, runs, step3Runs, names, query, df, df1, shown>>

\* cell 7 is for Google Colab ("if you're using Google Colab ..."): run locally, the
\* cell is passed over
Cell7_Skipped ==
    /\ At("c7")
    /\ Advance("c7")
    /\ UNCHANGED <<remote, jobResult, inflight, runs, step3Runs, names, query, df, df1, shown>>

\* cell 8: project_id = 'isb-cgc-outreach'; client = bigquery.Client(project_id)
Cell8 ==
    /\ At("c8")
    /\ IF "bigquery" \in names
       THEN names' = names \cup {"project_id", "client"} /\ Advance("c8")
       ELSE names' = names \cup {"project_id"} /\ Raise("c8", "NameError")
    /\ UNCHANGED <<remote, jobResult, inflight, runs, step3Runs, query, df, df1, shown>>

\* cell 8, bigquery.Client finds no usable credentials: project_id is bound, client is not
Cell8_Fails ==
    /\ At("c8")
    /\ "bigquery" \in names
    /\ names' = names \cup {"project_id"}
    /\ Raise("c8", "DefaultCredentialsError")
    /\ UNCHANGED <<remote, jobResult, inflight, runs, step3Runs, query, df, df1, shown>>

\* cell 12: query = ...; df = pandas_gbq.read_gbq(query, project_id=project_id), up to
\* the submission of the job
Cell12_Submit ==
    /\ At("c12")
    /\ query' = "classification"
    /\ names' = names \cup {"query"}
    /\ IF {"pandas_gbq", "project_id"} \subseteq names
       THEN Submit("c12", "classification")
       ELSE inflight' = inflight /\ Raise("c12", "NameError")
    /\ UNCHANGED <<remote, jobResult, runs, step3Runs, df, df1, shown>>

\* cell 12: the job is done, read_gbq returns its rows, df is bound
Cell12_Return ==
    \E j \in Awaited("c12") :
        /\ ~JobNotFound(j.sql, proxTable)
        /\ \E rows \in Evaluate(j.sql, source, proxTable) :
              /\ JobDone(j, rows)
              /\ df' = DataFrame(j.sql, rows)
        /\ Advance("c12")
        /\ UNCHANGED <<runs, step3Runs, names, query, df1, shown>>

\* cell 14: sns.scatterplot(y="Y_centroid", x="X_centroid", hue='celltype', data=df)
Cell14 ==
    /\ At("c14")
    /\ IF {"sns", "plt"} \subseteq names /\ {"X_centroid", "Y_centroid", "celltype"} \subseteq Columns(df.query)
       THEN shown' = [shown EXCEPT !["c14"] = df] /\ Advance("c14")
       ELSE shown' = shown /\ Raise("c14", IF df = Unbound THEN "NameError" ELSE "ValueError")
    /\ UNCHANGED <<remote, jobResult, inflight, runs, step3Runs, names, query, df, df1>>

\* cell 17: query = the text of the pairwise-proximity query
Cell17 ==
    /\ At("c17")
    /\ query' = "proximity"
    /\ names' = names \cup {"query"}
    /\ Advance("c17")
    /\ UNCHANGED <<remote, jobResult, inflight, runs, step3Runs, df, df1, shown>>

\* cell 19 without query_job.result(): the cell ends while its job is still running
Cell19_SubmitNoWait ==
    /\ At("c19")
    /\ {"bigquery", "client", "query"} \subseteq names
    /\ datasets' = datasets \cup {DatasetName}
    /\ names' = names \cup {"dataset_id", "dataset", "query_job"}
    /\ inflight' = inflight \cup {Job("c19", query)}
    /\ Advance("c19")
    /\ step3Runs' = step3Runs + 1
    /\ UNCHANGED <<source, proxTable, jobResult, runs, query, df, df1, shown>>

\* cell 19: client.create_dataset(dataset, exists_ok=True, timeout=30), then
\* query_job = client.query(query) with no job configuration (the destination table
\* and the WRITE_TRUNCATE disposition are commented out), up to query_job.result()
Cell19_Submit ==
    /\ At("c19")
    /\ IF {"bigquery", "client", "query"} \subseteq names
       THEN /\ datasets' = datasets \cup {DatasetName}
            /\ names' = names \cup {"dataset_id", "dataset", "query_job"}
            /\ Submit("c19", query)
       ELSE /\ datasets' = datasets
            /\ names' = names
            /\ inflight' = inflight
            /\ Raise("c19", "NameError")
    /\ UNCHANGED <<source, proxTable, jobResult, runs, step3Runs, query, df, df1, shown>>

\* cell 19, create_dataset is refused or times out: no dataset, no job
Cell19_CreateDatasetFails ==
    /\ At("c19")
    /\ {"bigquery", "client", "query"} \subseteq names
    /\ DatasetName \notin datasets
    /\ names' = names \cup {"dataset_id", "dataset"}
    /\ Raise("c19", "Forbidden")
    /\ UNCHANGED <<remote, jobResult, inflight, runs, step3Runs, query, df, df1, shown>>

\* cell 19: query_job.result() returns; the rows it iterates are not kept
Cell19_Return ==
    \E j \in Awaited("c19") :
        /\ ~JobNotFound(j.sql, proxTable)
        /\ \E rows \in Evaluate(j.sql, source, proxTable) : JobDone(j, rows)
        /\ step3Runs' = step3Runs + 1
        /\ Advance("c19")
        /\ UNCHANGED <<runs, names, query, df, df1, shown>>

\* cell 21: query = "SELECT * FROM {}.temp15432.... LIMIT 10".format(client.project);
\* df = pandas_gbq.read_gbq(...), up to the submission of the job
Cell21_Submit ==
    /\ At("c21")
    /\ IF {"client", "pandas_gbq", "project_id"} \subseteq names
       THEN /\ query' = "preview"
            /\ names' = names \cup {"query"}
            /\ Submit("c21", "preview")
       ELSE /\ query' = query
            /\ names' = names
            /\ inflight' = inflight
            /\ Raise("c21", "NameError")
    /\ UNCHANGED <<remote, jobResult, runs, step3Runs, df, df1, shown>>

\* cell 21: read_gbq returns the preview, df is rebound
Cell21_Return ==
    \E j \in Awaited("c21") :
        /\ ~JobNotFound(j.sql, proxTable)
        /\ \E rows \in Evaluate(j.sql, source, proxTable) :
              /\ JobDone(j, rows)
              /\ df' = DataFrame(j.sql, rows)
        /\ Advance("c21")
        /\ UNCHANGED <<runs, step3Runs, names, query, df1, shown>>

\* cell 23: query = the aggregation over the proximity table; df1 = pandas_gbq.read_gbq(...),
\* up to the submission of the job
Cell23_Submit ==
    /\ At("c23")
    /\ IF {"client", "pandas_gbq", "project_id"} \subseteq names
       THEN /\ query' = "aggregation"
            /\ names' = names \cup {"query"}
            /\ Submit("c23", "aggregation")
       ELSE /\ query' = query
            /\ names' = names
            /\ inflight' = inflight
            /\ Raise("c23", "NameError")
    /\ UNCHANGED <<remote, jobResult, runs, step3Runs, df, df1, shown>>

\* cell 23 binding its result to df instead of df1
Cell23_Return_BindsDf ==
    \E j \in Awaited("c23") :
        /\ ~JobNotFound(j.sql, proxTable)
        /\ \E rows \in Evaluate(j.sql, source, proxTable) :
              /\ JobDone(j, rows)
              /\ df' = DataFrame(j.sql, rows)
        /\ Advance("c23")
        /\ UNCHANGED <<runs, step3Runs, names, query, df1, shown>>

\* cell 23: read_gbq returns the counts, df1 is bound
Cell23_Return ==
    \E j \in Awaited("c23") :
        /\ ~JobNotFound(j.sql, proxTable)
        /\ \E rows \in Evaluate(j.sql, source, proxTable) :
              /\ JobDone(j, rows)
              /\ df1' = DataFrame(j.sql, rows)
        /\ Advance("c23")
        /\ UNCHANGED <<runs, step3Runs, names, query, df, shown>>

\* cell 24: sns.histplot(data=df1, x="N_Tumor_Cells")
Cell24 ==
    /\ At("c24")
    /\ IF "sns" \in names /\ "N_Tumor_Cells" \in Columns(df1.query)
       THEN shown' = [shown EXCEPT !["c24"] = df1] /\ Advance("c24")
       ELSE shown' = shown /\ Raise("c24", IF df1 = Unbound THEN "NameError" ELSE "ValueError")
    /\ UNCHANGED <<remote, jobResult, inflight, runs, step3Runs, names, query, df, df1>>

\* cell 28: query = the clustering query; df = pandas_gbq.read_gbq(...), up to the
\* submission of the job
Cell28_Submit ==
    /\ At("c28")
    /\ query' = "clustering"
    /\ names' = names \cup {"query"}
    /\ IF {"pandas_gbq", "project_id"} \subseteq names
       THEN Submit("c28", "clustering")
       ELSE inflight' = inflight /\ Raise("c28", "NameError")
    /\ UNCHANGED <<remote, jobResult, runs, step3Runs, df, df1, shown>>

\* cell 28: read_gbq returns the clustered rows, df is rebound
Cell28_Return ==
    \E j \in Awaited("c28") :
        /\ ~JobNotFound(j.sql, proxTable)
        /\ \E rows \in Evaluate(j.sql, source, proxTable) :
              /\ JobDone(j, rows)
              /\ df' = DataFrame(j.sql, rows)
        /\ Advance("c28")
        /\ UNCHANGED <<runs, step3Runs, names, query, df1, shown>>

\* cell 30: df1 = df.dropna(); df1['cluster_num'] = df1['cluster_num'].astype(str);
\* sns.scatterplot(data=df1, ..., hue='cluster_num')
Cell30 ==
    /\ At("c30")
    /\ IF df = Unbound
       THEN df1' = df1 /\ shown' = shown /\ Raise("c30", "NameError")
       ELSE IF "cluster_num" \notin Columns(df.query)
       THEN df1' = dropna(df) /\ shown' = shown /\ Raise("c30", "KeyError")
       ELSE /\ df1' = astype_str(dropna(df), "cluster_num")
            /\ shown' = [shown EXCEPT !["c30"] = df1']
            /\ Advance("c30")
    /\ UNCHANGED <<remote, jobResult, inflight, runs, step3Runs, names, query, df>>

\* a failed job caught by the cell: nothing is raised and the run goes on
JobFails_Swallowed(c) ==
    \E j \in Awaited(c) :
        /\ inflight' = inflight \ {j}
        /\ jobResult' = [cell |-> j.cell, sql |-> j.sql, ok |-> FALSE, rows |-> {}]
        /\ Advance(c)
        /\ UNCHANGED <<remote, runs, step3Runs, names, query, df, df1, shown>>

\* the job a call waits for fails (the table it reads does not exist; the service
\* refuses the project's credentials, quota or billing): the exception leaves the call
JobFails(c) ==
    \E j \in Awaited(c) :
        /\ inflight' = inflight \ {j}
        /\ jobResult' = [cell |-> j.cell, sql |-> j.sql, ok |-> FALSE, rows |-> {}]
        /\ Raise(c, IF JobNotFound(j.sql, proxTable) THEN "NotFound" ELSE "Forbidden")
        /\ UNCHANGED <<remote, runs, step3Runs, names, query, df, df1, shown>>

\* the notebook is run again from the top, in the same kernel, against the same project
Rerun ==
    /\ pc = "done" \/ error # NoError
    /\ runs < MaxRuns
    /\ runs' = runs + 1
    /\ pc' = "c5"
    /\ phase' = "ready"
    /\ error' = NoError
    /\ UNCHANGED <<remote, jobResult, inflight, step3Runs, names, query, df, df1, shown>>

Next ==
    \/ Cell5
    \/ Cell7
    \/ Cell7_Skipped
    \/ Cell8
    \/ Cell8_Fails
    \/ Cell12_Submit
    \/ Cell12_Return
    \/ Cell14
    \/ Cell17
    \/ Cell19_Submit
    \/ Cell19_CreateDatasetFails
    \/ Cell19_Return
    \/ Cell21_Submit
    \/ Cell21_Return
    \/ Cell23_Submit
    \/ Cell23_Return
    \/ Cell24
    \/ Cell28_Submit
    \/ Cell28_Return
    \/ Cell30
    \/ \E c \in {"c12", "c19", "c21", "c23", "c28"} : JobFails(c)
    \/ Rerun

Spec == Init /\ [][Next]_vars

(***************************************************************************)
(* Plotting cells executed in any order.  A notebook lets the user execute *)
(* a cell whatever was executed before; the kernel keeps its bindings.     *)
(***************************************************************************)
\* the cells that draw: the cell-type scatter plot, the histogram, the cluster plot
PlottingCells == {"c14", "c24", "c30"}

\* the user goes on from cell c instead of the cell below (also after an exception)
RunFrom(c) ==
    /\ phase = "ready"
    /\ c # pc
    /\ runs < MaxRuns
    /\ runs' = runs + 1
    /\ pc' = c
    /\ phase' = "ready"
    /\ error' = NoError
    /\ UNCHANGED <<remote, jobResult, inflight, step3Runs, names, query, df, df1, shown>>

NextAnyOrder ==
    \/ Next
    \/ \E c \in PlottingCells : RunFrom(c)

SpecAnyOrder == Init /\ [][NextAnyOrder]_vars

(***************************************************************************)
(* What the claims speak of, stated on the source rows themselves.         *)
(***************************************************************************)
\* the rows of the source table of biospecimen HTA7_1_3
Records == { r \in source : r.HTAN_Biospecimen_ID = Biospecimen }

RecordOf(id) == CHOOSE r \in source : r.CellID = id

Exceeds(v, t) == v # NULL /\ v > t

\* SOX10 > 3704.5 and (S100B > 7589.48 or CD63 > 570.68)
LabelledTumor(r) ==
    /\ Exceeds(r.SOX10_cellRingMask, SOX10_Threshold)
    /\ \/ Exceeds(r.S100B_cellRingMask, S100B_Threshold)
       \/ Exceeds(r.CD63_cellRingMask, CD63_Threshold)

LabelOf(r) == IF LabelledTumor(r) THEN "Tumor" ELSE "Other"

StrictlyInside(r) ==
    /\ r.X_centroid > XMin /\ r.X_centroid < XMax
    /\ r.Y_centroid > YMin /\ r.Y_centroid < YMax

\* cell 19 has just ended without error
Step3JustDone ==
    pc = "c21" /\ phase = "ready" /\ error = NoError /\ jobResult.cell = "c19" /\ jobResult.ok

(***************************************************************************)
(* C1.  After cell 19 (create the dataset, submit the pairwise-proximity   *)
(* query, wait for the job) ends without error, the table                  *)
(* temp15432.Melanoma_CyCIF_HTA7_1_3_points_within_20um exists and holds   *)
(* exactly the rows the query produced.                                    *)
(* Fails: client.query(query) is given no destination, so the rows go to   *)
(* an anonymous table and the named table is neither created nor written.  *)
(***************************************************************************)
C1_TableHoldsQueryResult ==
    Step3JustDone => proxTable.exists /\ proxTable.rows = jobResult.rows

(***************************************************************************)
(* C2.  After n >= 1 executions of cell 19 that ended without error, the   *)
(* table holds exactly one copy of the result of the pairwise-proximity    *)
(* query over the source data (cell 19 overwrites, and an existing dataset *)
(* or table does not make it fail).                                        *)
(* Fails for the same reason as C1: no execution of cell 19 writes the     *)
(* table, so in a project without it the table still does not exist.       *)
(***************************************************************************)
C2_RerunLeavesOneCopy ==
    step3Runs >= 1 => proxTable = Table(ProximityQuery(source))

(***************************************************************************)
(* C3.  Once cell 23 has bound df1: for every record labelled 'Tumor' and  *)
(* strictly inside the rectangle there is exactly one row, and its         *)
(* N_Tumor_Cells is the number of records other than itself that the       *)
(* proximity table pairs with it and that are labelled 'Tumor' (so it is   *)
(* never negative); there is no row for any other record.                  *)
(***************************************************************************)
C3_AggregationCounts ==
    df1.query = "aggregation" =>
        LET wanted == { r \in Records : LabelledTumor(r) /\ StrictlyInside(r) }
            TumorNeighbours(r) ==
                { t \in proxTable.rows :
                    /\ t.CellID = r.CellID
                    /\ t.CellID_1 # r.CellID
                    /\ LabelledTumor(RecordOf(t.CellID_1)) }
        IN  /\ \A r \in wanted :
                 /\ Cardinality({ row \in df1.rows : row.CellID = r.CellID }) = 1
                 /\ \A row \in df1.rows :
                       row.CellID = r.CellID =>
                          /\ row.N_Tumor_Cells = Cardinality(TumorNeighbours(r))
                          /\ row.N_Tumor_Cells >= 0
            /\ \A row \in df1.rows : \E r \in wanted : r.CellID = row.CellID

\* the counts are bound, a tumour record has ten tumour neighbours, and a record
\* inside the rectangle is labelled 'Other'
C3_Witness ==
    /\ df1.query = "aggregation"
    /\ \E row \in df1.rows : row.N_Tumor_Cells = 10
    /\ \E r \in Records : StrictlyInside(r) /\ ~LabelledTumor(r)

\* the pairwise-proximity query has run and its job is done
ProximityDone == jobResult.sql = "proximity" /\ jobResult.ok

PairRows(a, b) == { t \in jobResult.rows : t.CellID = a /\ t.CellID_1 = b }

\* the distance between the rescaled points of two source rows
PointDistance(a, b) ==
    ST_Distance(ST_GeogPoint(Rescale(a.X_centroid), Rescale(a.Y_centroid)),
                ST_GeogPoint(Rescale(b.X_centroid), Rescale(b.Y_centroid)))

(***************************************************************************)
(* C4.  The result of the pairwise-proximity query is symmetric: for any   *)
(* two records a, b of HTA7_1_3 the row (a, b) is in it exactly when the   *)
(* row (b, a) is, with the same Distance; and every record is paired with  *)
(* itself at Distance zero.                                                *)
(***************************************************************************)
C4_ProximitySymmetric ==
    ProximityDone =>
        /\ \A a, b \in { r.CellID : r \in Records } :
              /\ PairRows(a, b) # {} <=> PairRows(b, a) # {}
              /\ \A t \in PairRows(a, b), u \in PairRows(b, a) : t.Distance = u.Distance
        /\ \A a \in { r.CellID : r \in Records } :
              \E t \in PairRows(a, a) : t.Distance = 0

\* the result pairs a freely drawn record with a record of the dense group
C4_Witness ==
    /\ ProximityDone
    /\ \E t \in jobResult.rows : t.CellID \in FreeIds /\ t.CellID_1 \in DenseIds /\ t.Distance > 0

(***************************************************************************)
(* C5.  The pairwise-proximity query emits all and only the pairs within   *)
(* the threshold: for records a, b of HTA7_1_3 the row (a, b) is in the    *)
(* result exactly when the distance between their rescaled points is at    *)
(* most 9.29324770787722; every row's Distance is that distance and at     *)
(* most the threshold; no row involves a record of another biospecimen.    *)
(***************************************************************************)
C5_ProximityWithinThreshold ==
    ProximityDone =>
        /\ \A a, b \in Records :
              PairRows(a.CellID, b.CellID) # {} <=> PointDistance(a, b) <= DWithinThreshold
        /\ \A t \in jobResult.rows :
              /\ t.Distance <= DWithinThreshold
              /\ t.Distance = PointDistance(RecordOf(t.CellID), RecordOf(t.CellID_1))
              /\ RecordOf(t.CellID) \in Records
              /\ RecordOf(t.CellID_1) \in Records

\* the source holds a record of another biospecimen, and two records of HTA7_1_3
\* farther apart than the threshold but nearer than the clustering radius
C5_Witness ==
    /\ ProximityDone
    /\ source # Records
    /\ \E a, b \in Records :
          PointDistance(a, b) > DWithinThreshold /\ PointDistance(a, b) < DbscanEpsilon

Markers(r) == <<r.SOX10_cellRingMask, r.S100B_cellRingMask, r.CD63_cellRingMask>>

(***************************************************************************)
(* C6.  The label is one function of the marker columns in every query:    *)
(* 'Tumor' exactly when SOX10 > 3704.5 and (S100B > 7589.48 or CD63 >      *)
(* 570.68), 'Other' otherwise.  The classification query labels its rows   *)
(* so (and rows with equal markers alike), the proximity query labels both *)
(* sides of every pair so, and the records the clustering query returns    *)
(* are exactly those the classification query labelled 'Tumor'.            *)
(***************************************************************************)
C6_LabelIsOneFunction ==
    /\ df.query = "classification" =>
          /\ \A row \in df.rows : row.celltype = LabelOf(RecordOf(row.CellID))
          /\ \A row, other \in df.rows :
                Markers(RecordOf(row.CellID)) = Markers(RecordOf(other.CellID))
                   => row.celltype = other.celltype
    /\ ProximityDone =>
          \A t \in jobResult.rows :
             /\ t.celltype = LabelOf(RecordOf(t.CellID))
             /\ t.celltype_1 = LabelOf(RecordOf(t.CellID_1))
    /\ df.query = "clustering" /\ shown["c14"].query = "classification" =>
          { row.CellID : row \in df.rows }
             = { row.CellID : row \in { x \in shown["c14"].rows : x.celltype = "Tumor" } }

\* the clustering query has returned; inside the rectangle there are a tumour record
\* whose S100B is NULL and a record labelled 'Other'
C6_Witness ==
    /\ df.query = "clustering"
    /\ shown["c14"].query = "classification"
    /\ \E r \in Records :
          StrictlyInside(r) /\ LabelledTumor(r) /\ r.S100B_cellRingMask = NULL
    /\ \E r \in Records : StrictlyInside(r) /\ ~LabelledTumor(r)

(***************************************************************************)
(* C7.  At most one query job is in flight at any time, it is the job of   *)
(* the cell being executed, and no cell starts while a job is in flight.   *)
(***************************************************************************)
C7_OneJobAtATime ==
    /\ Cardinality(inflight) <= 1
    /\ \A j \in inflight : j.cell = pc /\ phase = "blocked"
    /\ phase = "ready" => inflight = {}

\* the aggregation job is in flight, after the preview's job ended
C7_Witness ==
    /\ \E j \in inflight : j.sql = "aggregation"
    /\ jobResult.cell = "c21"
    /\ jobResult.ok

(***************************************************************************)
(* C8.  In a run from the top, the credential step (cell 7,                *)
(* auth.authenticate_user()) ends without error, and a query job is only   *)
(* submitted when client and project_id are bound.                         *)
(* Fails: cell 5 leaves the import of auth commented out, so cell 7 raises *)
(* NameError.                                                              *)
(***************************************************************************)
C8_SetupSucceeds ==
    /\ error.cell # "c7"
    /\ inflight # {} => {"client", "project_id"} \subseteq names

(***************************************************************************)
(* C9.  No failure is handled: when the job a cell waits for fails, or a   *)
(* cell fails otherwise, the exception leaves that cell (the run stays at  *)
(* it), df and df1 keep their bindings, no job is left or resubmitted, and *)
(* nothing more happens in that run.                                       *)
(***************************************************************************)
C9_FailurePropagates ==
    [][ /\ (inflight # {} /\ inflight' = {} /\ ~jobResult'.ok)
            => error' # NoError
        /\ (error = NoError /\ error' # NoError)
            => /\ error'.cell = pc
               /\ pc' = pc
               /\ df' = df
               /\ df1' = df1
               /\ inflight' = {}
        /\ error # NoError
            => /\ runs' = runs + 1
               /\ pc' = "c5"
               /\ inflight' = inflight
               /\ df' = df
               /\ df1' = df1 ]_vars

\* the preview failed on the missing table; df still holds the classification
C9_Witness ==
    /\ error = [cell |-> "c21", kind |-> "NotFound"]
    /\ ~jobResult.ok
    /\ df.query = "classification"
    /\ inflight = {}

(***************************************************************************)
(* C10.  Every cluster_num the clustering query returns is a natural       *)
(* number or NULL; the cluster plot shows exactly the records whose        *)
(* cluster_num is not NULL; and df is still what the clustering query      *)
(* returned after the plotting cell.                                       *)
(***************************************************************************)
C10_ClusterPlot ==
    /\ df.query = "clustering" =>
          \A row \in df.rows : row.cluster_num = NULL \/ row.cluster_num \in Nat
    /\ (pc = "done" /\ error = NoError) =>
          /\ jobResult.cell = "c28"
          /\ df = DataFrame("clustering", jobResult.rows)
          /\ shown["c30"] = df1
          /\ { row.CellID : row \in shown["c30"].rows }
                = { row.CellID : row \in { x \in df.rows : x.cluster_num # NULL } }

\* the plot is drawn, with a record in a cluster and a record that is noise
C10_Witness ==
    /\ pc = "done"
    /\ error = NoError
    /\ \E row \in df.rows : row.cluster_num = NULL
    /\ \E row \in df.rows : row.cluster_num # NULL

(***************************************************************************)
(* C11.  Only cell 19 changes the remote state: every step of any other    *)
(* cell (the classification, preview, aggregation and clustering queries   *)
(* and the plots) leaves the project's datasets, the proximity table and   *)
(* the source table as they were, and no step at all changes the source    *)
(* table.                                                                  *)
(***************************************************************************)
C11_OnlyStep3ChangesRemote ==
    [][ /\ source' = source
        /\ remote' # remote => pc = "c19" ]_vars

\* a run in a new project went through cell 19, which created the dataset, and the
\* preview query that followed has ended
C11_Witness ==
    /\ datasets = {DatasetName}
    /\ proxTable = NoTable
    /\ step3Runs = 1
    /\ jobResult.sql = "preview"
    /\ inflight = {}

\* each plotting cell about to execute finds the frame of its own query, and each
\* plot drawn so far was drawn from it
PlotsReadTheirQuery ==
    /\ At("c14") => df.query = "classification"
    /\ At("c24") => df1.query = "aggregation" /\ "N_Tumor_Cells" \in Columns(df1.query)
    /\ At("c30") => df.query = "clustering"
    /\ shown["c14"].query \in {"unbound", "classification"}
    /\ shown["c24"].query \in {"unbound", "aggregation"}
    /\ shown["c30"].query \in {"unbound", "clustering"}

(***************************************************************************)
(* C12.  While the cells have been executed top to bottom (the first run,  *)
(* runs = 1), every plotting cell reads the result of its own query,       *)
(* although df and df1 are rebound on the way: cell 14 finds the           *)
(* classification in df, cell 24 the counts (with N_Tumor_Cells) in df1,   *)
(* cell 30 the clustering in df.  Executed in another order, a plotting    *)
(* cell reads the frame of another query (the witness).                    *)
(***************************************************************************)
C12_LinearRunPlotsItsQuery ==
    runs = 1 => PlotsReadTheirQuery

\* out of order: the cell-type plot was drawn from the preview of the proximity
\* table, after a histogram drawn in order from the counts
C12_Witness ==
    /\ runs > 1
    /\ shown["c14"].query = "preview"
    /\ shown["c24"].query = "aggregation"

(***************************************************************************)
(* C12, runs from the top only (Spec): the same holds in every run,        *)
(* repeated runs in the same kernel included.                              *)
(***************************************************************************)
C12_TopToBottomRuns == PlotsReadTheirQuery

\* out of order: the histogram cell is reached with df1 rebound by the cluster plot
C12_HistogramAfterClusterPlot ==
    At("c24") /\ df1.query = "clustering"

=============================================================================
